---------------------------- MODULE Spec2Model ----------------------------
(***************************************************************************)
(* Q47-Prime-Constellations: the sieve, the Miller-Rabin tester, the       *)
(* polynomial Q(n) = n^47 - (n-1)^47, the singular-series fold and the     *)
(* verifiers, as state machines.  Each Python function that loops is a     *)
(* frame (a record of its locals plus a program counter `pc`); a function  *)
(* without observable intermediate state is an operator.                   *)
(*                                                                         *)
(* Python integers are unbounded.  Values that outgrow the checker's       *)
(* machine integers (Q(n), the numerators and denominators of the         *)
(* products) are carried as exact naturals in little-endian limbs of      *)
(* radix BASE.                                                             *)
(***************************************************************************)
EXTENDS Integers, Sequences, FiniteSets

VARIABLES mr, sv, cq, vo, ve, vq

vars == <<mr, sv, cq, vo, ve, vq>>

(***************************************************************************)
(* Bounds of the model.                                                    *)
(***************************************************************************)
MaxExclN == 48

\* verify_quadruplet is called with n in 1..MaxQuadN
MaxQuadN == 10

\* sieve_primes is called with n in 0..MaxLimit
MaxLimit == 200

\* the largest p_max given to compute_CQ and verify_omega_computationally
MaxPMax == 300

\* is_prime_miller_rabin is called with n in -NegN..MaxN or the Carmichael
\* number 561, and k in 1..MaxK or 25
NegN == 2

MaxN == 100

MaxK == 2

(***************************************************************************)
(* Program constants.                                                      *)
(***************************************************************************)
EXP == 47

\* the default round count `k: int = 25`
DefaultRounds == 25

(***************************************************************************)
(* Exact naturals (Python int).                                            *)
(***************************************************************************)
BASE == 10^4

BigZero == <<0>>

RECURSIVE BigStrip(_)
BigStrip(b) ==
    IF Len(b) > 1 /\ b[Len(b)] = 0 THEN BigStrip(SubSeq(b, 1, Len(b) - 1)) ELSE b

RECURSIVE BigFromNat(_)
BigFromNat(v) ==
    IF v < BASE THEN <<v>> ELSE <<v % BASE>> \o BigFromNat(v \div BASE)

RECURSIVE BigMulCarry(_, _, _, _)
BigMulCarry(b, m, i, carry) ==
    IF i > Len(b)
    THEN IF carry = 0 THEN <<>> ELSE BigFromNat(carry)
    ELSE LET t == b[i] * m + carry
         IN  <<t % BASE>> \o BigMulCarry(b, m, i + 1, t \div BASE)

\* b * m for a machine-sized natural m
BigMulSmall(b, m) == BigStrip(BigMulCarry(b, m, 1, 0))

RECURSIVE BigPowLoop(_, _, _)
\* acc * n ** e; each product is computed (its Len taken) before the next pass
BigPowLoop(acc, n, e) ==
    IF e = 0
    THEN acc
    ELSE LET next == BigMulSmall(acc, n)
         IN  IF Len(next) > 0 THEN BigPowLoop(next, n, e - 1) ELSE next

\* n ** e for machine-sized naturals n and e
BigPowSmall(n, e) == BigPowLoop(<<1>>, n, e)

RECURSIVE BigSubBorrow(_, _, _, _)
BigSubBorrow(a, b, i, borrow) ==
    IF i > Len(a)
    THEN <<>>
    ELSE LET bi == IF i <= Len(b) THEN b[i] ELSE 0
             t  == a[i] - bi - borrow
         IN  IF t < 0
             THEN <<t + BASE>> \o BigSubBorrow(a, b, i + 1, 1)
             ELSE <<t>> \o BigSubBorrow(a, b, i + 1, 0)

\* a - b for a >= b
BigSub(a, b) == BigStrip(BigSubBorrow(a, b, 1, 0))

RECURSIVE BigAddCarry(_, _, _, _)
BigAddCarry(a, b, i, carry) ==
    IF i > Len(a) /\ i > Len(b)
    THEN IF carry = 0 THEN <<>> ELSE <<carry>>
    ELSE LET ai == IF i <= Len(a) THEN a[i] ELSE 0
             bi == IF i <= Len(b) THEN b[i] ELSE 0
             t  == ai + bi + carry
         IN  <<t % BASE>> \o BigAddCarry(a, b, i + 1, t \div BASE)

BigAdd(a, b) == BigStrip(BigAddCarry(a, b, 1, 0))

RECURSIVE BigMulLoop(_, _, _, _)
\* acc * BASE^i + a * (the low i limbs of b); each sum is computed (its Len
\* taken) before the next pass
BigMulLoop(a, b, i, acc) ==
    IF i = 0
    THEN acc
    ELSE LET next == BigAdd(BigStrip(<<0>> \o acc), BigMulSmall(a, b[i]))
         IN  IF Len(next) > 0 THEN BigMulLoop(a, b, i - 1, next) ELSE next

\* a * b
BigMul(a, b) == BigMulLoop(a, b, Len(b), BigZero)

RECURSIVE BigCmpFrom(_, _, _)
BigCmpFrom(a, b, i) ==
    IF i = 0 THEN 0
    ELSE IF a[i] < b[i] THEN -1
    ELSE IF a[i] > b[i] THEN 1
    ELSE BigCmpFrom(a, b, i - 1)

\* -1, 0, 1 as a < b, a = b, a > b
BigCmp(a, b) ==
    IF Len(a) < Len(b) THEN -1
    ELSE IF Len(a) > Len(b) THEN 1
    ELSE BigCmpFrom(a, b, Len(a))

RECURSIVE BigModFrom(_, _, _, _)
BigModFrom(b, m, i, acc) ==
    IF i = 0 THEN acc ELSE BigModFrom(b, m, i - 1, (acc * BASE + b[i]) % m)

\* b % m for a machine-sized positive m
BigModSmall(b, m) == BigModFrom(b, m, Len(b), 0)

RECURSIVE NatDigits(_)
NatDigits(v) == IF v < 10 THEN 1 ELSE 1 + NatDigits(v \div 10)

\* len(str(b)) for b >= 0
BigDigits(b) == 4 * (Len(b) - 1) + NatDigits(b[Len(b)])

(***************************************************************************)
(* verify_quadruplets.py: Q                                                *)
(***************************************************************************)
\* mutant of Q: the exponent one too small
QExponent46(n) == BigSub(BigPowSmall(n, EXP - 1), BigPowSmall(n - 1, EXP - 1))

\* Q(n) = n**47 - (n-1)**47, for n >= 1
Q(n) == BigSub(BigPowSmall(n, EXP), BigPowSmall(n - 1, EXP))

(***************************************************************************)
(* verify_quadruplets.py: is_prime_miller_rabin                            *)
(***************************************************************************)
RECURSIVE PowMod(_, _, _)
\* the builtin pow(b, e, m) for e >= 0, m > 0
PowMod(b, e, m) ==
    IF e = 0
    THEN 1 % m
    ELSE LET h == PowMod(b, e \div 2, m)
             s == (h * h) % m
         IN  IF e % 2 = 1 THEN (s * (b % m)) % m ELSE s

\* mutants of FirstPass: one of the two passing values forgotten
FirstPassMinusOneOnly(x, n) == x = n - 1

FirstPassOneOnly(x, n) == x = 1

\* `if x == 1 or x == n - 1: continue`
FirstPass(x, n) == x = 1 \/ x = n - 1

\* mutant of SquareCount: `range(r)`
SquareCountOneMore(r) == r

\* `for _ in range(r - 1)`
SquareCount(r) == r - 1

\* the values random.randrange(2, n - 1) can return
WitnessRange(n) == 2..(n - 2)

MR_Idle ==
    [pc |-> "idle", n |-> 0, k |-> 0, r |-> 0, d |-> 0, i |-> 0, a |-> 0, x |-> 0,
     j |-> 0, draws |-> 0, ret |-> FALSE]

\* a call is_prime_miller_rabin(n, k); `draws` counts the calls of random.randrange
MR_Call ==
    \E n \in ((-NegN)..MaxN) \cup {561}, k \in (1..MaxK) \cup {DefaultRounds} :
        mr = [MR_Idle EXCEPT !.pc = "entry", !.n = n, !.k = k]

\* mutant of MR_Entry: the case n == 2 or n == 3 forgotten
MR_EntryNoSmallPrimes ==
    /\ mr.pc = "entry"
    /\ mr' = IF mr.n < 2 THEN [mr EXCEPT !.pc = "done", !.ret = FALSE]
             ELSE IF mr.n % 2 = 0 THEN [mr EXCEPT !.pc = "done", !.ret = FALSE]
             ELSE [mr EXCEPT !.pc = "halve", !.r = 0, !.d = mr.n - 1]
    /\ UNCHANGED <<sv, cq, vo, ve, vq>>

\* lines 18-26: the trivial cases, then r, d = 0, n - 1
MR_Entry ==
    /\ mr.pc = "entry"
    /\ mr' = IF mr.n < 2 THEN [mr EXCEPT !.pc = "done", !.ret = FALSE]
             ELSE IF mr.n = 2 \/ mr.n = 3 THEN [mr EXCEPT !.pc = "done", !.ret = TRUE]
             ELSE IF mr.n % 2 = 0 THEN [mr EXCEPT !.pc = "done", !.ret = FALSE]
             ELSE [mr EXCEPT !.pc = "halve", !.r = 0, !.d = mr.n - 1]
    /\ UNCHANGED <<sv, cq, vo, ve, vq>>

\* lines 27-29: one pass of `while d % 2 == 0`
MR_Halve ==
    /\ mr.pc = "halve"
    /\ mr.d % 2 = 0
    /\ mr' = [mr EXCEPT !.r = mr.r + 1, !.d = mr.d \div 2]
    /\ UNCHANGED <<sv, cq, vo, ve, vq>>

\* line 27 fails: the while loop ends and the for loop starts
MR_HalveExit ==
    /\ mr.pc = "halve"
    /\ mr.d % 2 # 0
    /\ mr' = [mr EXCEPT !.pc = "round", !.i = 0]
    /\ UNCHANGED <<sv, cq, vo, ve, vq>>

\* lines 32-37: a round draws its witness; randrange raises ValueError on an
\* empty range
MR_Draw ==
    /\ mr.pc = "round"
    /\ mr.i < mr.k
    /\ IF WitnessRange(mr.n) = {}
       THEN mr' = [mr EXCEPT !.pc = "raised"]
       ELSE \E a \in WitnessRange(mr.n) :
               LET x == PowMod(a, mr.d, mr.n)
               IN  mr' = IF FirstPass(x, mr.n)
                         THEN [mr EXCEPT !.a = a, !.x = x, !.draws = mr.draws + 1,
                                         !.i = mr.i + 1]
                         ELSE [mr EXCEPT !.a = a, !.x = x, !.draws = mr.draws + 1,
                                         !.pc = "square", !.j = 0]
    /\ UNCHANGED <<sv, cq, vo, ve, vq>>

\* lines 39-42: one pass of the squaring loop; `break` ends the round
MR_Square ==
    /\ mr.pc = "square"
    /\ mr.j < SquareCount(mr.r)
    /\ LET x == PowMod(mr.x, 2, mr.n)
       IN  mr' = IF x = mr.n - 1
                 THEN [mr EXCEPT !.x = x, !.pc = "round", !.i = mr.i + 1]
                 ELSE [mr EXCEPT !.x = x, !.j = mr.j + 1]
    /\ UNCHANGED <<sv, cq, vo, ve, vq>>

\* lines 43-44: the squaring loop ran out, `return False`
MR_Exhaust ==
    /\ mr.pc = "square"
    /\ mr.j >= SquareCount(mr.r)
    /\ mr' = [mr EXCEPT !.pc = "done", !.ret = FALSE]
    /\ UNCHANGED <<sv, cq, vo, ve, vq>>

\* line 45: every round passed, `return True`
MR_Return ==
    /\ mr.pc = "round"
    /\ mr.i >= mr.k
    /\ mr' = [mr EXCEPT !.pc = "done", !.ret = TRUE]
    /\ UNCHANGED <<sv, cq, vo, ve, vq>>

MR_Next ==
    \/ MR_Entry
    \/ MR_Halve
    \/ MR_HalveExit
    \/ MR_Draw
    \/ MR_Square
    \/ MR_Exhaust
    \/ MR_Return

(***************************************************************************)
(* verify_quadruplets.py: verify_exclusion_theorem                         *)
(***************************************************************************)
VE_Idle == [pc |-> "idle", max_n |-> 0, it |-> 0, n |-> 0, q |-> BigZero, ret |-> FALSE]

VE_Call ==
    \E max_n \in 0..MaxExclN :
        ve = [pc |-> "loop", max_n |-> max_n, it |-> 2, n |-> 0, q |-> BigZero,
              ret |-> FALSE]

\* one pass of `for n in range(2, max_n + 1)`, lines 56-60
VE_Iter ==
    /\ ve.pc = "loop"
    /\ ve.it < ve.max_n + 1
    /\ LET n == ve.it
           q == Q(n)
       IN  IF BigModSmall(q, 3) # 1
           THEN ve' = [ve EXCEPT !.pc = "done", !.n = n, !.q = q, !.ret = FALSE]
           ELSE ve' = [ve EXCEPT !.it = n + 1, !.n = n, !.q = q]
    /\ UNCHANGED <<mr, sv, cq, vo, vq>>

\* the range is exhausted, lines 65-66
VE_Return ==
    /\ ve.pc = "loop"
    /\ ve.it >= ve.max_n + 1
    /\ ve' = [ve EXCEPT !.pc = "done", !.ret = TRUE]
    /\ UNCHANGED <<mr, sv, cq, vo, vq>>

VE_Next == VE_Iter \/ VE_Return

(***************************************************************************)
(* Claims about is_prime_miller_rabin, under SpecMR.                       *)
(***************************************************************************)
\* primality by trial division
IsPrimeTD(n) == n >= 2 /\ \A q \in 2..(n - 1) : n % q # 0

IsComposite(n) == n >= 4 /\ ~IsPrimeTD(n)

RECURSIVE OddPart(_)
OddPart(m) == IF m % 2 = 0 THEN OddPart(m \div 2) ELSE m

RECURSIVE TwoExp(_)
TwoExp(m) == IF m % 2 = 0 THEN 1 + TwoExp(m \div 2) ELSE 0

\* a is a strong liar for odd n: with n - 1 = 2^s * t, t odd, a^t = 1 or
\* a^(2^e * t) = -1 (mod n) for some e < s
StrongLiar(a, n) ==
    LET t == OddPart(n - 1)
        s == TwoExp(n - 1)
    IN  \/ PowMod(a, t, n) = 1
        \/ \E e \in 0..(s - 1) : PowMod(a, t * 2^e, n) = n - 1

\* C2: a prime n is never reported composite, whatever witnesses are drawn
\* and for every round count k of the model
MR_NoFalseNegative ==
    (mr.pc = "done" /\ IsPrimeTD(mr.n)) => mr.ret = TRUE

MR_NoFalseNegativeWitness ==
    /\ mr.pc = "done"
    /\ mr.n >= 5
    /\ IsPrimeTD(mr.n)
    /\ mr.k = DefaultRounds
    /\ mr.draws = DefaultRounds
    /\ mr.ret = TRUE

\* C3 as stated: a composite n is reported composite by 25 rounds whatever
\* witnesses are drawn
MR_CompositeAlwaysFalse ==
    (mr.pc = "done" /\ IsComposite(mr.n) /\ mr.k = DefaultRounds) => mr.ret = FALSE

\* C3 amended: with 25 rounds a composite n is reported prime only when all
\* 25 drawn witnesses are strong liars for n, which at most a quarter of the
\* candidates in [2, n-2] are; it is reported composite at the first drawn
\* witness that is not a strong liar, and before any draw when n is even
MR_CompositeFalseUnlessLiars ==
    (IsComposite(mr.n) /\ mr.k = DefaultRounds) =>
        /\ mr.pc = "entry" =>
              4 * Cardinality({a \in 2..(mr.n - 2) : mr.n % 2 = 1 /\ StrongLiar(a, mr.n)})
                  <= mr.n - 3
        /\ (mr.pc = "round" /\ mr.i >= 1) => StrongLiar(mr.a, mr.n)
        /\ (mr.pc = "done" /\ mr.ret = TRUE) =>
              mr.draws = DefaultRounds /\ StrongLiar(mr.a, mr.n)
        /\ (mr.pc = "done" /\ mr.ret = FALSE) =>
              IF mr.n % 2 = 0 THEN mr.draws = 0
              ELSE mr.draws >= 1 /\ ~StrongLiar(mr.a, mr.n)

MR_CompositeFalseUnlessLiarsWitness ==
    /\ mr.pc = "done"
    /\ IsComposite(mr.n)
    /\ mr.k = DefaultRounds
    /\ mr.ret = FALSE
    /\ mr.draws >= 2

\* decreases with every step of a call
MR_Measure ==
    LET abs == IF mr.n < 0 THEN -mr.n ELSE mr.n
    IN  CASE mr.pc = "entry"  -> 2 + mr.k * (abs + 2) + abs
          [] mr.pc = "halve"  -> 1 + mr.k * (mr.n + 2) + mr.d
          [] mr.pc = "round"  -> 1 + (mr.k - mr.i) * (mr.r + 2)
          [] mr.pc = "square" -> 1 + (mr.k - mr.i - 1) * (mr.r + 2) + (mr.r - mr.j)
          [] OTHER            -> 0

MR_TotalInv ==
    /\ mr.pc # "raised"
    /\ mr.pc = "done" => mr.ret \in BOOLEAN
    /\ mr.pc # "done" => ENABLED MR_Next
    /\ mr.pc = "halve" => mr.d >= 1 /\ mr.n - 1 = (2^mr.r) * mr.d
    /\ mr.pc \in {"round", "square"} =>
          /\ mr.d % 2 = 1
          /\ mr.r >= 1
          /\ mr.n - 1 = (2^mr.r) * mr.d
          /\ WitnessRange(mr.n) # {}
    /\ mr.pc = "done" \/ MR_Measure > 0

\* C7: a call never raises and always ends with a boolean: every step lowers
\* a natural-number measure and only a finished call has no step; the
\* halving loop ends with d odd, r >= 1 and n - 1 = 2^r * d, and the draw
\* range is non-empty whenever a witness is drawn
MR_NeverFails == []MR_TotalInv /\ [][MR_Measure' < MR_Measure]_vars

MR_NeverFailsWitness ==
    /\ mr.pc = "done"
    /\ mr.n = 97
    /\ mr.r = 5
    /\ mr.draws = DefaultRounds
    /\ mr.ret = TRUE

\* the round's witness passes, in the terms of lines 34-42
MR_Passes(a) ==
    LET x0 == PowMod(a, mr.d, mr.n)
    IN  \/ x0 = 1
        \/ x0 = mr.n - 1
        \/ \E t \in 1..(mr.r - 1) : PowMod(x0, 2^t, mr.n) = mr.n - 1

\* C9: on an odd n >= 5 a witness passes iff a^d mod n is 1 or n-1 or one of
\* the at most r-1 squarings gives n-1; False is returned at the first round
\* whose witness does not pass and no witness is drawn after it; True is
\* returned only after exactly k rounds each drew one witness that passed
MR_RoundsInv ==
    (mr.n >= 5 /\ mr.n % 2 = 1) =>
        /\ mr.pc = "round" =>
              /\ mr.draws = mr.i
              /\ mr.i <= mr.k
              /\ mr.i >= 1 => MR_Passes(mr.a)
        /\ mr.pc = "square" =>
              /\ mr.draws = mr.i + 1
              /\ mr.i < mr.k
              /\ mr.j <= mr.r - 1
              /\ mr.x = PowMod(PowMod(mr.a, mr.d, mr.n), 2^mr.j, mr.n)
              /\ \A t \in 0..mr.j : PowMod(PowMod(mr.a, mr.d, mr.n), 2^t, mr.n) # mr.n - 1
        /\ (mr.pc = "done" /\ mr.ret = FALSE) =>
              /\ ~MR_Passes(mr.a)
              /\ mr.draws = mr.i + 1
              /\ mr.draws <= mr.k
        /\ (mr.pc = "done" /\ mr.ret = TRUE) =>
              /\ mr.draws = mr.k
              /\ mr.i = mr.k
              /\ MR_Passes(mr.a)
        /\ mr.pc = "done" => ~ENABLED MR_Draw

MR_RoundsInvWitness ==
    /\ mr.pc = "done"
    /\ mr.ret = FALSE
    /\ mr.n = 49
    /\ mr.k = DefaultRounds
    /\ mr.draws = 3
    /\ mr.j = 3

(***************************************************************************)
(* Claims about verify_exclusion_theorem, under SpecExclusion.             *)
(***************************************************************************)
\* the least n in 2..max_n whose Q(n) is not 1 mod 3, or 0 when there is none
VE_FirstBad(max_n) ==
    LET bad == {m \in 2..max_n :
                   (PowMod(m, EXP, 3) - PowMod(m - 1, EXP, 3)) % 3 # 1}
    IN  IF bad = {} THEN 0 ELSE CHOOSE m \in bad : \A o \in bad : m <= o

\* C4: Q(n) mod 3 = 1 for every n examined, so the call returns True; a
\* False return happens at the least n whose residue differs from 1, with
\* no larger n examined
VE_ExclusionHolds ==
    /\ (ve.pc = "loop" /\ ve.n >= 2) =>
          /\ ve.it = ve.n + 1
          /\ ve.q = Q(ve.n)
          /\ BigModSmall(ve.q, 3) = 1
          /\ (PowMod(ve.n, EXP, 3) - PowMod(ve.n - 1, EXP, 3)) % 3 = 1
    /\ ve.pc = "done" =>
          /\ ve.ret = TRUE
          /\ ve.it = (IF ve.max_n >= 2 THEN ve.max_n + 1 ELSE 2)
          /\ VE_FirstBad(ve.max_n) = 0
    /\ (ve.pc = "done" /\ ve.ret = FALSE) =>
          /\ ve.n = VE_FirstBad(ve.max_n)
          /\ ve.it = ve.n

VE_ExclusionHoldsWitness ==
    /\ ve.pc = "done"
    /\ ve.max_n = MaxExclN
    /\ ve.n = MaxExclN
    /\ BigDigits(ve.q) >= 70
    /\ ve.ret = TRUE
    /\ Q(2) = <<5327, 8835, 7374, 140>>

(***************************************************************************)
(* verify_quadruplets.py: verify_quadruplet                                *)
(***************************************************************************)
\* what is_prime_miller_rabin(q) can return for an exact natural q: lines
\* 18-23 decide without a draw, otherwise the drawn witnesses decide
MR_Outcomes(q) ==
    IF BigCmp(q, <<2>>) < 0 THEN {FALSE}
    ELSE IF q = <<2>> \/ q = <<3>> THEN {TRUE}
    ELSE IF q[1] % 2 = 0 THEN {FALSE}
    ELSE BOOLEAN

\* mutant of AllPrime: any() for all()
AnyPrime(results) == \E t \in 1..Len(results) : results[t][1]

\* `all(r[0] for r in results)`
AllPrime(results) == \A t \in 1..Len(results) : results[t][1]

\* `[r[1] for r in results]`
DigitCounts(results) == [t \in 1..Len(results) |-> results[t][2]]

VQ_Idle ==
    [pc |-> "idle", n |-> 0, i |-> 0, q |-> BigZero, results |-> <<>>,
     tested |-> <<>>, all_prime |-> FALSE, digit_counts |-> <<>>]

\* a call verify_quadruplet(n); `tested` lists the arguments of the calls of
\* is_prime_miller_rabin in call order
VQ_Call ==
    \E n \in 1..MaxQuadN : vq = [VQ_Idle EXCEPT !.pc = "loop", !.n = n]

\* lines 74-78: one pass of `for i in range(4)`
VQ_Iter ==
    /\ vq.pc = "loop"
    /\ vq.i < 4
    /\ LET q      == Q(vq.n + vq.i)
           digits == BigDigits(q)
       IN  \E is_prime \in MR_Outcomes(q) :
               vq' = [vq EXCEPT !.q = q,
                                !.results = Append(vq.results, <<is_prime, digits>>),
                                !.tested = Append(vq.tested, q),
                                !.i = vq.i + 1]
    /\ UNCHANGED <<mr, sv, cq, vo, ve>>

\* lines 80-83
VQ_Return ==
    /\ vq.pc = "loop"
    /\ vq.i >= 4
    /\ vq' = [vq EXCEPT !.pc = "done",
                        !.all_prime = AllPrime(vq.results),
                        !.digit_counts = DigitCounts(vq.results)]
    /\ UNCHANGED <<mr, sv, cq, vo, ve>>

VQ_Next == VQ_Iter \/ VQ_Return

(***************************************************************************)
(* Claims about verify_quadruplet, under SpecQuadruplet.                   *)
(***************************************************************************)
\* d is the number of decimal digits of the exact natural q >= 1
HasDigits(q, d) ==
    /\ BigCmp(BigPowSmall(10, d - 1), q) <= 0
    /\ BigCmp(q, BigPowSmall(10, d)) < 0

\* C8: success iff each of the four calls returned True; Q(n), Q(n+1),
\* Q(n+2), Q(n+3) are all evaluated and tested in that order, also after an
\* earlier one was found composite; the second component holds their four
\* digit counts in that order
VQ_AllFourTested ==
    /\ vq.pc = "loop" =>
          /\ Len(vq.results) = vq.i
          /\ vq.tested = [t \in 1..vq.i |-> Q(vq.n + t - 1)]
    /\ vq.pc = "done" =>
          /\ vq.i = 4
          /\ Len(vq.results) = 4
          /\ vq.tested = <<Q(vq.n), Q(vq.n + 1), Q(vq.n + 2), Q(vq.n + 3)>>
          /\ vq.all_prime = (/\ vq.results[1][1] /\ vq.results[2][1]
                             /\ vq.results[3][1] /\ vq.results[4][1])
          /\ Len(vq.digit_counts) = 4
          /\ \A t \in 1..4 : HasDigits(vq.tested[t], vq.digit_counts[t])

VQ_AllFourTestedWitness ==
    /\ vq.pc = "done"
    /\ vq.n = 2
    /\ vq.results[1][1] = FALSE
    /\ vq.results[4][1] = TRUE
    /\ vq.all_prime = FALSE
    /\ vq.digit_counts[1] = 15

(***************************************************************************)
(* scripts/compute_bateman_horn.py: sieve_primes                           *)
(***************************************************************************)
\* int(n**0.5) for n >= 0 (the float square root is exact to the unit here)
ISqrt(n) == CHOOSE s \in 0..n : s * s <= n /\ (s + 1) * (s + 1) > n

\* the values of range(start, stop, step), step > 0
Range(start, stop, step) ==
    IF start >= stop THEN {}
    ELSE {start + t * step : t \in 0..((stop - 1 - start) \div step)}

\* the first index the inner loop marks, `range(i * i, n + 1, i)`
MarkStart(i) == i * i

\* lines 29-31: one pass of the outer loop
SieveMark(is_prime, i, n) ==
    IF is_prime[i]
    THEN [m \in DOMAIN is_prime |->
             IF m \in Range(MarkStart(i), n + 1, i) THEN FALSE ELSE is_prime[m]]
    ELSE is_prime

RECURSIVE SieveLoop(_, _, _, _)
\* line 28: `for i in range(2, int(n**0.5) + 1)` from i on
SieveLoop(is_prime, i, stop, n) ==
    IF i >= stop THEN is_prime
    ELSE SieveLoop(SieveMark(is_prime, i, n), i + 1, stop, n)

RECURSIVE SieveCollect(_, _, _)
\* line 32: `[i for i in range(lo, hi + 1) if is_prime[i]]`, by halves
SieveCollect(is_prime, lo, hi) ==
    IF lo > hi THEN <<>>
    ELSE IF lo = hi THEN (IF is_prime[lo] THEN <<lo>> ELSE <<>>)
    ELSE LET mid == (lo + hi) \div 2
         IN  SieveCollect(is_prime, lo, mid) \o SieveCollect(is_prime, mid + 1, hi)

\* sieve_primes(n): line 27 assigns is_prime[1] in a list of n + 1 items and
\* raises IndexError when there is none
sieve_primes(n) ==
    IF n + 1 < 2
    THEN [raised |-> TRUE, value |-> <<>>]
    ELSE LET init   == [m \in 0..n |-> m >= 2]
             marked == SieveLoop(init, 2, ISqrt(n) + 1, n)
         IN  [raised |-> FALSE, value |-> SieveCollect(marked, 2, n)]

SV_Idle == [pc |-> "idle", n |-> 0, ret |-> <<>>]

\* a call sieve_primes(n)
SV_Call == \E n \in 0..MaxLimit : sv = [pc |-> "call", n |-> n, ret |-> <<>>]

SV_Run ==
    /\ sv.pc = "call"
    /\ LET r == sieve_primes(sv.n)
       IN  sv' = IF r.raised THEN [sv EXCEPT !.pc = "raised"]
                 ELSE [sv EXCEPT !.pc = "done", !.ret = r.value]
    /\ UNCHANGED <<mr, cq, vo, ve, vq>>

SV_Next == SV_Run

(***************************************************************************)
(* Claims about sieve_primes, under SpecSieve.                             *)
(***************************************************************************)
\* s lists exactly the primes <= n, ascending, each once
IsPrimeList(s, n) ==
    /\ \A t \in 1..(Len(s) - 1) : s[t] < s[t + 1]
    /\ {s[t] : t \in 1..Len(s)} = {q \in 2..n : IsPrimeTD(q)}

\* C1: for every limit >= 0 the call returns the primes <= limit, ascending,
\* each once; the empty sequence for limit 0 and 1, 25 primes for limit 100
SV_SieveExact ==
    sv.pc # "call" =>
        /\ sv.pc = "done"
        /\ IsPrimeList(sv.ret, sv.n)
        /\ sv.n \in {0, 1} => sv.ret = <<>>
        /\ sv.n = 100 => Len(sv.ret) = 25 /\ sv.ret[1] = 2 /\ sv.ret[25] = 97

\* the same for every limit >= 1
SV_SieveExactFromOne ==
    (sv.pc # "call" /\ sv.n >= 1) =>
        /\ sv.pc = "done"
        /\ IsPrimeList(sv.ret, sv.n)
        /\ sv.n = 1 => sv.ret = <<>>
        /\ sv.n = 100 => Len(sv.ret) = 25 /\ sv.ret[1] = 2 /\ sv.ret[25] = 97

(***************************************************************************)
(* scripts/compute_bateman_horn.py: omega_Q                                *)
(***************************************************************************)
\* mutant of omega_Q: the projective root counted
omega_Q_47(p) ==
    IF p = 47 THEN 0
    ELSE IF (p - 1) % 47 = 0 THEN 47
    ELSE 0

\* mutant of omega_Q: `p % 47 == 0` for `(p - 1) % 47 == 0`
omega_Q_NoMinusOne(p) ==
    IF p = 47 THEN 0
    ELSE IF p % 47 = 0 THEN 46
    ELSE 0

omega_Q(p) ==
    IF p = 47 THEN 0
    ELSE IF (p - 1) % 47 = 0 THEN 46
    ELSE 0

\* the p_max the two drivers are called with
PMaxInputs == {0, 1, 2, 47, 283, MaxPMax}

(***************************************************************************)
(* scripts/compute_bateman_horn.py: verify_omega_computationally           *)
(***************************************************************************)
\* line 128: the count of n in range(p) with Q(n) = 0 (mod p)
BruteCount(p) ==
    Cardinality({n \in 0..(p - 1) :
        (PowMod(n, 47, p) - PowMod((n - 1) % p, 47, p)) % p = 0})

VO_Idle ==
    [pc |-> "idle", p_max |-> 0, primes |-> <<>>, idx |-> 0, p |-> 0, brute |-> 0,
     theory |-> 0, all_match |-> FALSE, ret |-> FALSE]

\* a call verify_omega_computationally(p_max)
VO_Call ==
    \E p_max \in PMaxInputs : vo = [VO_Idle EXCEPT !.pc = "call", !.p_max = p_max]

\* lines 119-125
VO_Sieve ==
    /\ vo.pc = "call"
    /\ LET r == sieve_primes(vo.p_max)
       IN  vo' = IF r.raised THEN [vo EXCEPT !.pc = "raised"]
                 ELSE [vo EXCEPT !.pc = "loop", !.primes = r.value, !.idx = 1,
                                 !.all_match = TRUE]
    /\ UNCHANGED <<mr, sv, cq, ve, vq>>

\* lines 126-132: one pass of `for p in primes`
VO_Iter ==
    /\ vo.pc = "loop"
    /\ vo.idx <= Len(vo.primes)
    /\ LET p      == vo.primes[vo.idx]
           brute  == BruteCount(p)
           theory == omega_Q(p)
       IN  vo' = [vo EXCEPT !.p = p, !.brute = brute, !.theory = theory,
                            !.all_match = IF brute # theory THEN FALSE ELSE vo.all_match,
                            !.idx = vo.idx + 1]
    /\ UNCHANGED <<mr, sv, cq, ve, vq>>

\* line 143
VO_Return ==
    /\ vo.pc = "loop"
    /\ vo.idx > Len(vo.primes)
    /\ vo' = [vo EXCEPT !.pc = "done", !.ret = vo.all_match]
    /\ UNCHANGED <<mr, sv, cq, ve, vq>>

VO_Next == VO_Sieve \/ VO_Iter \/ VO_Return

(***************************************************************************)
(* Claims about verify_omega_computationally, under SpecOmega.             *)
(***************************************************************************)
\* C5: for every prime compared, omega_Q(p) equals the brute-force count of
\* the residues n in [0, p) with n^47 - (n-1)^47 = 0 (mod p); the primes
\* compared are all the primes <= p_max and the call returns True
VO_OmegaMatchesBrute ==
    /\ (vo.pc = "loop" /\ vo.idx > 1) =>
          /\ vo.p = vo.primes[vo.idx - 1]
          /\ vo.theory = omega_Q(vo.p)
          /\ vo.brute = vo.theory
          /\ vo.all_match = TRUE
    /\ vo.pc \in {"loop", "done"} => IsPrimeList(vo.primes, vo.p_max)
    /\ vo.pc = "done" =>
          /\ vo.idx = Len(vo.primes) + 1
          /\ vo.ret = TRUE

VO_OmegaMatchesBruteWitness ==
    /\ vo.pc = "loop"
    /\ vo.p_max = MaxPMax
    /\ vo.p = 283
    /\ vo.brute = 46
    /\ vo.theory = 46

(***************************************************************************)
(* scripts/compute_bateman_horn.py: compute_CQ                             *)
(*                                                                         *)
(* The float products are carried as the exact rationals they stand for:   *)
(* a pair <<numerator, denominator>> of exact naturals, not reduced.       *)
(***************************************************************************)
RatOne == <<(<<1>>), (<<1>>)>>

\* r * (f[1] / f[2]) for machine-sized naturals f[1], f[2]
RatMulSmall(r, f) == <<BigMulSmall(r[1], f[1]), BigMulSmall(r[2], f[2])>>

\* -1, 0, 1 as a < b, a = b, a > b
RatCmp(a, b) == BigCmp(BigMul(a[1], b[2]), BigMul(b[1], a[2]))

\* line 78: (1 - w / p) / (1 - 1 / p) = (p - w) / (p - 1)
LocalFactor(w, p) == <<p - w, p - 1>>

\* line 69
Milestones(p_max) == {283, 1000, 5000, 10000, 50000, p_max}

\* line 87: the row of p is printed
RowPrinted(verbose, p, p_max) ==
    verbose /\ (p <= 53 \/ p \in Milestones(p_max) \/ (p < 300 /\ (p - 1) % 47 = 0))

\* line 88
PType(w, p) == IF w = 46 THEN "SPLIT" ELSE IF p = 47 THEN "ramified" ELSE "shield"

\* mutant of ShieldingUpdate: the `if w == 0` guard dropped
ShieldingUpdateAlways(shielding_product, w, local_factor) ==
    RatMulSmall(shielding_product, local_factor)

\* lines 81-82: `if w == 0: shielding_product *= local_factor`
ShieldingUpdate(shielding_product, w, local_factor) ==
    IF w = 0 THEN RatMulSmall(shielding_product, local_factor) ELSE shielding_product

CQ_Idle ==
    [pc |-> "idle", p_max |-> 0, verbose |-> FALSE, primes |-> <<>>, idx |-> 0,
     p |-> 0, w |-> 0, local_factor |-> <<1, 1>>, C_Q |-> RatOne,
     shielding_product |-> RatOne, n_shielding |-> 0, n_splitting |-> 0,
     ptype |-> "", ret |-> RatOne]

\* a call compute_CQ(p_max, verbose)
CQ_Call ==
    \E p_max \in PMaxInputs, verbose \in BOOLEAN :
        cq = [CQ_Idle EXCEPT !.pc = "call", !.p_max = p_max, !.verbose = verbose]

\* lines 62-69
CQ_Sieve ==
    /\ cq.pc = "call"
    /\ LET r == sieve_primes(cq.p_max)
       IN  cq' = IF r.raised THEN [cq EXCEPT !.pc = "raised"]
                 ELSE [cq EXCEPT !.pc = "loop", !.primes = r.value, !.idx = 1,
                                 !.C_Q = RatOne, !.shielding_product = RatOne,
                                 !.n_shielding = 0, !.n_splitting = 0]
    /\ UNCHANGED <<mr, sv, vo, ve, vq>>

\* lines 76-89: one pass of `for p in primes`
CQ_Fold ==
    /\ cq.pc = "loop"
    /\ cq.idx <= Len(cq.primes)
    /\ LET p            == cq.primes[cq.idx]
           w            == omega_Q(p)
           local_factor == LocalFactor(w, p)
       IN  cq' = [cq EXCEPT
                     !.p = p, !.w = w, !.local_factor = local_factor,
                     !.C_Q = RatMulSmall(cq.C_Q, local_factor),
                     !.shielding_product =
                         ShieldingUpdate(cq.shielding_product, w, local_factor),
                     !.n_shielding = IF w = 0 THEN cq.n_shielding + 1 ELSE cq.n_shielding,
                     !.n_splitting = IF w = 0 THEN cq.n_splitting ELSE cq.n_splitting + 1,
                     !.ptype = IF RowPrinted(cq.verbose, p, cq.p_max)
                               THEN PType(w, p) ELSE cq.ptype,
                     !.idx = cq.idx + 1]
    /\ UNCHANGED <<mr, sv, vo, ve, vq>>

\* line 111
CQ_Return ==
    /\ cq.pc = "loop"
    /\ cq.idx > Len(cq.primes)
    /\ cq' = [cq EXCEPT !.pc = "done", !.ret = cq.C_Q]
    /\ UNCHANGED <<mr, sv, vo, ve, vq>>

CQ_Next == CQ_Sieve \/ CQ_Fold \/ CQ_Return

(***************************************************************************)
(* Claims about compute_CQ, under SpecCQ.                                  *)
(***************************************************************************)
\* the classification of section 3 of the design: from p mod 47 and 47 alone
Classification(p) ==
    IF p = 47 THEN "ramified" ELSE IF p % 47 = 1 THEN "splitting" ELSE "shielding"

\* C6: every prime folded is ramified iff it is 47, splitting iff it is 1
\* mod 47 and shielding otherwise, the type the code prints is that one, and
\* omega_Q is 46 iff the prime is splitting and 0 otherwise; 283 is splitting
\* with omega_Q 46 and 47 is ramified with omega_Q 0
CQ_OneClassification ==
    (cq.pc \in {"loop", "done"} /\ cq.idx > 1) =>
        /\ cq.w = omega_Q(cq.p)
        /\ cq.w \in {0, 46}
        /\ cq.w = 46 <=> Classification(cq.p) = "splitting"
        /\ PType(cq.w, cq.p) = "SPLIT" <=> Classification(cq.p) = "splitting"
        /\ PType(cq.w, cq.p) = "ramified" <=> Classification(cq.p) = "ramified"
        /\ PType(cq.w, cq.p) = "shield" <=> Classification(cq.p) = "shielding"
        /\ RowPrinted(cq.verbose, cq.p, cq.p_max) => cq.ptype = PType(cq.w, cq.p)
        /\ cq.p = 283 => cq.w = 46 /\ PType(cq.w, cq.p) = "SPLIT"
        /\ cq.p = 47 => cq.w = 0 /\ PType(cq.w, cq.p) = "ramified"
        /\ \A t \in 1..(cq.idx - 1) :
              omega_Q(cq.primes[t]) = (IF cq.primes[t] % 47 = 1 THEN 46 ELSE 0)

CQ_OneClassificationWitness ==
    /\ cq.pc = "done"
    /\ cq.p_max = 283
    /\ cq.verbose
    /\ cq.p = 283
    /\ cq.w = 46
    /\ cq.ptype = "SPLIT"
    /\ cq.n_shielding = 60

\* the splitting primes among the first k of primes
SplitSet(primes, k) == {t \in 1..k : primes[t] % 47 = 1}

RECURSIVE SplitProductOver(_, _)
\* the product of (primes[t] - 46) / (primes[t] - 1) over t in S
SplitProductOver(primes, S) ==
    IF S = {} THEN RatOne
    ELSE LET t == CHOOSE u \in S : \A v \in S : v <= u
         IN  RatMulSmall(SplitProductOver(primes, S \ {t}),
                         <<primes[t] - 46, primes[t] - 1>>)

\* the product of (p - 46) / (p - 1) over the splitting primes among the
\* first k of primes
SplitProduct(primes, k) == SplitProductOver(primes, SplitSet(primes, k))

\* a * b for rationals
RatMul(a, b) == <<BigMul(a[1], b[1]), BigMul(a[2], b[2])>>

CQ_FoldInv ==
    cq.pc \in {"loop", "done"} =>
        /\ IsPrimeList(cq.primes, cq.p_max)
        /\ cq.idx \in 1..(Len(cq.primes) + 1)
        /\ cq.idx > 1 => cq.p = cq.primes[cq.idx - 1]
        /\ cq.n_shielding + cq.n_splitting = cq.idx - 1
        /\ cq.n_splitting = Cardinality(SplitSet(cq.primes, cq.idx - 1))
        /\ cq.n_shielding = Cardinality({t \in 1..(cq.idx - 1) :
                                            cq.primes[t] = 47 \/ cq.primes[t] % 47 # 1})
        /\ RatCmp(cq.C_Q, RatMul(cq.shielding_product,
                                 SplitProduct(cq.primes, cq.idx - 1))) = 0
        /\ cq.pc = "done" => cq.idx = Len(cq.primes) + 1 /\ cq.ret = cq.C_Q

CQ_FoldStep ==
    (cq.pc = "loop" /\ cq'.pc = "loop") =>
        /\ cq'.idx = cq.idx + 1
        /\ cq'.p = cq.primes[cq.idx]
        /\ \/ cq'.n_shielding = cq.n_shielding + 1 /\ cq'.n_splitting = cq.n_splitting
           \/ cq'.n_shielding = cq.n_shielding /\ cq'.n_splitting = cq.n_splitting + 1
        /\ RatCmp(cq'.C_Q, RatMulSmall(cq.C_Q, <<cq'.p - cq'.w, cq'.p - 1>>)) = 0
        /\ IF omega_Q(cq'.p) = 0
           THEN /\ RatCmp(cq'.shielding_product,
                          RatMulSmall(cq.shielding_product, <<cq'.p, cq'.p - 1>>)) = 0
                /\ cq'.n_shielding = cq.n_shielding + 1
           ELSE /\ cq'.shielding_product = cq.shielding_product
                /\ cq'.n_splitting = cq.n_splitting + 1
        /\ cq'.p = 47 => cq'.n_shielding = cq.n_shielding + 1
        /\ RatCmp(cq.shielding_product, cq'.shielding_product) <= 0

\* C10: the primes <= p_max are folded once each in ascending order; every
\* fold grows exactly one of the two counters by 1, so their sum is the
\* number of primes folded, 47 counting as shielding; the shielding
\* sub-product is multiplied by the local factor exactly when omega_Q(p) = 0
\* and never decreases, and the full product is the shielding sub-product
\* times the product of (p-46)/(p-1) over the splitting primes folded
CQ_FoldsEachPrimeOnce == []CQ_FoldInv /\ [][CQ_FoldStep]_vars

CQ_FoldsEachPrimeOnceWitness ==
    /\ cq.pc = "done"
    /\ cq.p_max = MaxPMax
    /\ cq.idx = 63
    /\ cq.n_splitting = 1
    /\ cq.n_shielding = 61
    /\ RatCmp(cq.shielding_product, cq.C_Q) > 0

(***************************************************************************)
(* Specifications: one per entry point.                                    *)
(***************************************************************************)
MR_Init ==
    /\ MR_Call
    /\ ve = VE_Idle
    /\ vq = VQ_Idle
    /\ sv = SV_Idle
    /\ cq = CQ_Idle
    /\ vo = VO_Idle

SpecMR == MR_Init /\ [][MR_Next]_vars

VE_Init ==
    /\ VE_Call
    /\ mr = MR_Idle
    /\ vq = VQ_Idle
    /\ sv = SV_Idle
    /\ cq = CQ_Idle
    /\ vo = VO_Idle

SpecExclusion == VE_Init /\ [][VE_Next]_vars

VQ_Init ==
    /\ VQ_Call
    /\ mr = MR_Idle
    /\ ve = VE_Idle
    /\ sv = SV_Idle
    /\ cq = CQ_Idle
    /\ vo = VO_Idle

SpecQuadruplet == VQ_Init /\ [][VQ_Next]_vars

SV_Init ==
    /\ SV_Call
    /\ mr = MR_Idle
    /\ ve = VE_Idle
    /\ vq = VQ_Idle
    /\ cq = CQ_Idle
    /\ vo = VO_Idle

SpecSieve == SV_Init /\ [][SV_Next]_vars

CQ_Init ==
    /\ CQ_Call
    /\ mr = MR_Idle
    /\ ve = VE_Idle
    /\ vq = VQ_Idle
    /\ sv = SV_Idle
    /\ vo = VO_Idle

SpecCQ == CQ_Init /\ [][CQ_Next]_vars

VO_Init ==
    /\ VO_Call
    /\ mr = MR_Idle
    /\ ve = VE_Idle
    /\ vq = VQ_Idle
    /\ sv = SV_Idle
    /\ cq = CQ_Idle

SpecOmega == VO_Init /\ [][VO_Next]_vars

\* any one of the entry points is called
Init == MR_Init \/ VE_Init \/ VQ_Init \/ SV_Init \/ CQ_Init \/ VO_Init

Next == MR_Next \/ VE_Next \/ VQ_Next \/ SV_Next \/ CQ_Next \/ VO_Next

Spec == Init /\ [][Next]_vars

=============================================================================
